---- MODULE Spec2Model ----
(***************************************************************************)
(* State-machine model of the DT Clock widget (src/floating_clock.py):     *)
(* the FloatingAnalogClock widget state, its mutators, the stopwatch, the  *)
(* pointer handlers, the redraw timer and the persisted state record.      *)
(*                                                                         *)
(* Conventions                                                             *)
(*   - a point is a pair <<x, y>>; None is the empty tuple NoPoint;        *)
(*   - a text (font family) is a sequence of one-character strings, so     *)
(*     that str.strip() is computed and not assumed;                       *)
(*   - the monotonic clock time.perf_counter() is counted in ticks, with   *)
(*     TicksPerMs ticks to the millisecond, so that the truncation of      *)
(*     int((now - start) * 1000.0) is visible;                             *)
(*   - a value of the state file is a JSON value [kind, v]; the text of a   *)
(*     JSON string is kept as its reader compares it: a name for mode,     *)
(*     layer and theme, a sequence of characters for the readout font;     *)
(*   - an opacity is a float counted in hundredths, or not-a-number;       *)
(*   - the window is visible exactly while the process runs;               *)
(*   - every handler is one action; the variable last records which        *)
(*     handler ran last and what it observed, and writes counts the        *)
(*     save_state calls that handler made.                                 *)
(***************************************************************************)
EXTENDS Integers, Sequences, FiniteSets, TLC

\* ------------------------------------------------------------ constants
MODE_CLOCK == "clock"
MODE_STOPWATCH == "stopwatch"
DEFAULT_MODE == MODE_CLOCK

LAYER_TOP == "top"
LAYER_NORMAL == "normal"
LAYER_BOTTOM == "bottom"
DEFAULT_LAYER == LAYER_TOP

MIN_CLOCK_SIZE == 120
MAX_CLOCK_SIZE == 640
DEFAULT_CLOCK_SIZE == 220

THEME_ORDER == <<"midnight", "daylight", "high_contrast", "ocean">>
THEME_PRESETS == {THEME_ORDER[i] : i \in 1..Len(THEME_ORDER)}
DEFAULT_THEME == "midnight"

DEFAULT_READOUT_FONT == <<"M", "o", "n", "o", "s", "p", "a", "c", "e">>

click_threshold_px == 6
MIN_READOUT_HEIGHT == 52
SIZE_STEP == 20

\* _clamp_opacity's limits and the default of --opacity, in hundredths.
MIN_OPACITY == 5
MAX_OPACITY == 95
DEFAULT_OPACITY == 45

INTERVAL_CLOCK == 1000
INTERVAL_RUNNING == 10
INTERVAL_PAUSED == 33

\* ------------------------------------------------------------ bounds
\* Ticks of the monotonic clock per millisecond.
TicksPerMs == 2
\* The monotonic clock is explored up to this many ticks.
MaxNow == 4
\* The displays are ScreenW x ScreenH pixels; the primary one is at the
\* origin.
ScreenW == 800
ScreenH == 900
\* The window is relocated (by a drag step, a system move or a resize) at
\* most this many times; centering on a screen is not counted.
MaxRelocations == 2
\* The process is launched again at most this many times.
MaxLaunches == 1
\* A run has at most this many long stretches of time, and lasts at most
\* this many milliseconds.
MaxNaps == 2
MaxRunMs == 500000000

\* ------------------------------------------------------------ inputs
ModeInputs == {MODE_CLOCK, MODE_STOPWATCH, "timer"}
LayerInputs == {LAYER_TOP, LAYER_NORMAL, LAYER_BOTTOM, "floating"}
ThemeInputs == {"midnight", "ocean", "sepia"}
FontInputs == {<<>>, <<" ">>, <<" ", "A", " ">>, <<"A">>, DEFAULT_READOUT_FONT}
\* Sizes asked of set_clock_size besides the menu's -20 / +20 steps.
SizeInputs == {100, 120, 160, 640, 700}

\* ------------------------------------------------------------ helpers
NoPoint == <<>>
Pt(x, y) == <<x, y>>
PtAdd(p, q) == <<p[1] + q[1], p[2] + q[2]>>
PtSub(p, q) == <<p[1] - q[1], p[2] - q[2]>>
Abs(n) == IF n < 0 THEN -n ELSE n
Max(a, b) == IF a >= b THEN a ELSE b
Min(a, b) == IF a <= b THEN a ELSE b

\* QPoint.manhattanLength()
manhattanLength(p) == Abs(p[1]) + Abs(p[2])

\* C++ integer division by a positive divisor: truncation toward zero.
TruncDiv(n, d) == IF n >= 0 THEN n \div d ELSE -((-n) \div d)

\* QRect.center(): ((x1 + x2) / 2, (y1 + y2) / 2) with x2 = x1 + w - 1.
RectCenter(r) ==
    Pt(TruncDiv(r.x + (r.x + r.w - 1), 2), TruncDiv(r.y + (r.y + r.h - 1), 2))

\* QRect.contains(QPoint): edges included.
RectContains(r, p) ==
    /\ r.x <= p[1] /\ p[1] <= r.x + r.w - 1
    /\ r.y <= p[2] /\ p[2] <= r.y + r.h - 1

IsSpace(c) == c = " "

RECURSIVE LStrip(_)
LStrip(s) == IF s # <<>> /\ IsSpace(Head(s)) THEN LStrip(Tail(s)) ELSE s

RECURSIVE RStrip(_)
RStrip(s) ==
    IF s # <<>> /\ IsSpace(s[Len(s)]) THEN RStrip(SubSeq(s, 1, Len(s) - 1)) ELSE s

\* str.strip()
Strip(s) == RStrip(LStrip(s))

\* ------------------------------------------------------------ validation
ClampSizeNoMax(parsed) == Max(MIN_CLOCK_SIZE, parsed)

\* max(MIN_CLOCK_SIZE, min(MAX_CLOCK_SIZE, parsed))
ClampSize(parsed) == Max(MIN_CLOCK_SIZE, Min(MAX_CLOCK_SIZE, parsed))

_valid_size(size) == ClampSize(size)

_valid_mode(m) == IF m \in {MODE_CLOCK, MODE_STOPWATCH} THEN m ELSE DEFAULT_MODE

_valid_layer(l) ==
    IF l \in {LAYER_TOP, LAYER_NORMAL, LAYER_BOTTOM} THEN l ELSE DEFAULT_LAYER

_valid_theme(t) == IF t \in THEME_PRESETS THEN t ELSE DEFAULT_THEME

_normalize_readout_font(f) ==
    LET normalized == Strip(f)
    IN IF normalized # <<>> THEN normalized ELSE DEFAULT_READOUT_FONT

\* The readout band as a quarter of the size, without the minimum.
ReadoutHeightQuarter(size) == size \div 4

\* max(52, self.clock_size // 4)
ReadoutHeight(size) == Max(MIN_READOUT_HEIGHT, size \div 4)

\* ------------------------------------------------------------ opacity
\* A float: h hundredths, or not-a-number.
Num(h) == [nan |-> FALSE, h |-> h]
NaN == [nan |-> TRUE, h |-> 0]

\* a < b on floats: false when either is not-a-number.
FloatLess(a, b) == ~a.nan /\ ~b.nan /\ a.h < b.h

\* Python's min(a, b) and max(a, b): the first argument unless the second
\* is smaller (larger).
PyMin(a, b) == IF FloatLess(b, a) THEN b ELSE a
PyMax(a, b) == IF FloatLess(a, b) THEN b ELSE a

\* Opacities given with --opacity: below, at, between and above the
\* limits, and not-a-number.
OpacityInputs ==
    {Num(-1000), Num(0), Num(4), Num(5), Num(45), Num(95), Num(96), Num(1000), NaN}

\* A clamp without the lower limit.
ClampOpacityNoFloor(value) == PyMin(value, Num(MAX_OPACITY))

\* max(0.05, min(value, 0.95))
_clamp_opacity(value) == PyMax(Num(MIN_OPACITY), PyMin(value, Num(MAX_OPACITY)))

\* ------------------------------------------------------------ state
VARIABLES
    mode, layer, clock_size, readout_height, color_theme, readout_font_family,
    face_alpha,
    win_x, win_y, win_w, win_h, visible,
    stopwatch_running, stopwatch_elapsed_ms, stopwatch_start_time, now,
    drag_offset, press_global_pos, drag_started,
    timer_interval,
    state_file, disk_ok, writes, last, ghost, far_move, relocations

prefVars == <<layer, color_theme, readout_font_family, face_alpha>>
sizeVars == <<clock_size, readout_height>>
geomVars == <<win_x, win_y, win_w, win_h, visible>>
swVars == <<stopwatch_running, stopwatch_elapsed_ms, stopwatch_start_time>>
ptrVars == <<drag_offset, press_global_pos, drag_started>>
\* Everything the program holds in memory (the clock reading and the
\* bookkeeping of the model excluded).
widgetVars == <<mode, prefVars, sizeVars, geomVars, swVars, ptrVars, timer_interval>>
histVars == <<ghost, far_move, relocations>>
vars == <<widgetVars, now, state_file, disk_ok, writes, last, histVars>>

\* ------------------------------------------------------------ displays
PrimaryScreen == [x |-> 0, y |-> 0, w |-> ScreenW, h |-> ScreenH]
\* A second display of the same size, right of the primary one.
SecondScreen == [x |-> ScreenW, y |-> 0, w |-> ScreenW, h |-> ScreenH]
\* QApplication.screens()
Screens == {PrimaryScreen, SecondScreen}

Frame(x, y, w, h) == [x |-> x, y |-> y, w |-> w, h |-> h]

\* _is_on_any_screen for a window frame
IsOnAnyScreen(fr) == \E scr \in Screens : RectContains(scr, RectCenter(fr))

\* _current_screen: the screen of the window handle, else the screen at
\* the frame's center, else the screen under the cursor, else the primary
\* screen.  The toolkit keeps a window whose center is on a screen on
\* that screen; for a window whose center is on no screen the choice is
\* the toolkit's, and before the window is shown (restore_position) it is
\* the screen under the cursor: every known screen is possible.
CurrentScreens(fr) ==
    IF IsOnAnyScreen(fr)
    THEN {scr \in Screens : RectContains(scr, RectCenter(fr))}
    ELSE Screens

\* The top-left corner center_on_screen moves a w x h window to on scr.
CenteredAt(scr, w, h) == Pt(scr.x + (scr.w - w) \div 2, scr.y + (scr.h - h) \div 2)

\* _apply_window_size: the fixed size for a clock size and mode
WindowHeight(size, m) == size + (IF m = MODE_STOPWATCH THEN ReadoutHeight(size) ELSE 0)

\* ------------------------------------------------------------ persistence
\* JSON values.  Missing: the key is not in the object.  JFloat(n): a
\* finite float that is not whole, with integer part n.  JInf: a float
\* beyond the double range (1e999).  JNaN: the literal NaN, which
\* json.loads accepts.  JDigits(n): a string int() reads as n.
Missing == [kind |-> "missing", v |-> 0]
JNull == [kind |-> "null", v |-> 0]
JBool(b) == [kind |-> "bool", v |-> IF b THEN 1 ELSE 0]
JInt(n) == [kind |-> "int", v |-> n]
JFloat(n) == [kind |-> "float", v |-> n]
JInf == [kind |-> "inf", v |-> 0]
JNaN == [kind |-> "nan", v |-> 0]
JDigits(n) == [kind |-> "digits", v |-> n]
JStr(text) == [kind |-> "str", v |-> text]
JList == [kind |-> "list", v |-> 0]

Fields == {"x", "y", "size", "mode", "layer", "theme", "readout_font"}

\* The state file.  form: "object" (a JSON object with the fields given),
\* "missing" (no file), "unreadable" (reading raises OSError), "invalid"
\* (not JSON, or not UTF-8), "not_object" (JSON, but no object), "nested"
\* (JSON nested deeper than the parser's recursion limit).
NoRecord ==
    [form |-> "missing", x |-> Missing, y |-> Missing, size |-> Missing,
     mode |-> Missing, layer |-> Missing, theme |-> Missing, readout_font |-> Missing]

\* A payload that leaves the theme out.
PayloadWithoutTheme(x, y, size, m, l, t, f) ==
    [form |-> "object", x |-> JInt(x), y |-> JInt(y), size |-> JInt(size),
     mode |-> JStr(m), layer |-> JStr(l), theme |-> Missing, readout_font |-> JStr(f)]

\* The payload save_state writes for the given widget fields.
Payload(x, y, size, m, l, t, f) ==
    [form |-> "object", x |-> JInt(x), y |-> JInt(y), size |-> JInt(size),
     mode |-> JStr(m), layer |-> JStr(l), theme |-> JStr(t), readout_font |-> JStr(f)]

\* The empty dict {}.
EmptyState == [NoRecord EXCEPT !.form = "object"]

\* What load_saved_state raises: json.loads raises RecursionError, which
\* "except (OSError, ValueError)" does not catch.
LoadRaises(form) == IF form = "nested" THEN "RecursionError" ELSE ""

\* load_saved_state: the dict it returns (when it returns).
load_saved_state(file) == IF file.form = "object" THEN file ELSE EmptyState

\* int(value): v, or the exception raised.  A missing key reaches int()
\* as None through dict.get, and raises KeyError through state[key].
ParseInt(j, subscript) ==
    CASE j.kind \in {"int", "bool", "float", "digits"} -> [raises |-> "", v |-> j.v]
      [] j.kind = "inf" -> [raises |-> "OverflowError", v |-> 0]
      [] j.kind \in {"str", "nan"} -> [raises |-> "ValueError", v |-> 0]
      [] j.kind = "missing" /\ subscript -> [raises |-> "KeyError", v |-> 0]
      [] OTHER -> [raises |-> "TypeError", v |-> 0]

\* _valid_size(saved_state.get("size")): TypeError and ValueError give the
\* default size, any other exception ends the launch.
LaunchSize(j) ==
    LET parsed == ParseInt(j, FALSE)
    IN IF parsed.raises \in {"TypeError", "ValueError"}
       THEN [raises |-> "", v |-> ClampSize(DEFAULT_CLOCK_SIZE)]
       ELSE [raises |-> parsed.raises, v |-> ClampSize(parsed.v)]

\* _valid_mode(saved_state.get("mode")): membership in a tuple compares
\* with ==, which no JSON value fails.
LaunchMode(j) == IF j.kind = "str" THEN _valid_mode(j.v) ELSE DEFAULT_MODE

\* _valid_layer(saved_state.get("layer"))
LaunchLayer(j) == IF j.kind = "str" THEN _valid_layer(j.v) ELSE DEFAULT_LAYER

\* _valid_theme(saved_state.get("theme")): membership in a dict hashes the
\* value, and a list is not hashable.
LaunchTheme(j) ==
    CASE j.kind = "str" -> [raises |-> "", v |-> _valid_theme(j.v)]
      [] j.kind = "list" -> [raises |-> "TypeError", v |-> DEFAULT_THEME]
      [] OTHER -> [raises |-> "", v |-> DEFAULT_THEME]

\* _normalize_readout_font(saved_state.get("readout_font"))
LaunchFont(j) ==
    IF j.kind = "str" THEN _normalize_readout_font(j.v) ELSE DEFAULT_READOUT_FONT

\* restore_position's int(state["x"]), int(state["y"]): the point, or the
\* first exception raised.
SavedPosition(state) ==
    LET px == ParseInt(state.x, TRUE)
        py == ParseInt(state.y, TRUE)
    IN [raises |-> IF px.raises # "" THEN px.raises ELSE py.raises,
        p |-> Pt(px.v, py.v)]

\* save_state: the file after the write; an OSError (the state directory
\* cannot be written: disk_ok is false) is swallowed and leaves it as it was.
SaveState(file, payload, io) == IF io THEN payload ELSE file

\* A save_state without the except clause.
SaveStateRaisesOSError(io) == IF io THEN "" ELSE "OSError"

\* What save_state raises into its caller: "except OSError: pass" lets
\* nothing through.
SaveStateRaises(io) == ""

\* ------------------------------------------------------------ redraw timer
\* The interval chosen from the running flag as it was before the handler.
RefreshIntervalStale(m, running) ==
    IF m = MODE_STOPWATCH
    THEN (IF stopwatch_running THEN INTERVAL_RUNNING ELSE INTERVAL_PAUSED)
    ELSE INTERVAL_CLOCK

\* _update_refresh_timer
RefreshInterval(m, running) ==
    IF m = MODE_STOPWATCH
    THEN (IF running THEN INTERVAL_RUNNING ELSE INTERVAL_PAUSED)
    ELSE INTERVAL_CLOCK

\* ------------------------------------------------------------ stopwatch
\* The running time rounded up to the next millisecond.
CurrentStopwatchMsCeil(running, elapsed, start, t) ==
    IF ~running
    THEN elapsed
    ELSE elapsed + Max(0, TruncDiv(t - start + TicksPerMs - 1, TicksPerMs))

\* The running time taken as start - now.
CurrentStopwatchMsSwapped(running, elapsed, start, t) ==
    IF ~running
    THEN elapsed
    ELSE elapsed + Max(0, TruncDiv(start - t, TicksPerMs))

\* The reading of a running stopwatch counted from the last start alone.
CurrentStopwatchMsSinceStart(running, elapsed, start, t) ==
    IF ~running
    THEN elapsed
    ELSE Max(0, TruncDiv(t - start, TicksPerMs))

\* _current_stopwatch_ms at clock reading t
CurrentStopwatchMsAt(running, elapsed, start, t) ==
    IF ~running
    THEN elapsed
    ELSE elapsed + Max(0, TruncDiv(t - start, TicksPerMs))

CurrentStopwatchMs ==
    CurrentStopwatchMsAt(stopwatch_running, stopwatch_elapsed_ms, stopwatch_start_time, now)

\* ------------------------------------------------------------ rendering
DigitChars == <<"0", "1", "2", "3", "4", "5", "6", "7", "8", "9">>

\* str(n) of an integer n >= 0
RECURSIVE Decimal(_)
Decimal(n) ==
    IF n < 10 THEN <<DigitChars[n + 1]>>
    ELSE Decimal(n \div 10) \o <<DigitChars[(n % 10) + 1]>>

\* Zero fill of the format specification 0<width>: zeros on the left up to
\* the width, and the digits as they are when there are more.
RECURSIVE ZeroFill(_, _)
ZeroFill(digits, width) ==
    IF Len(digits) >= width THEN digits ELSE ZeroFill(<<"0">> \o digits, width)

\* f"{n:0<width>}"
Formatted(n, width) == ZeroFill(Decimal(n), width)

\* The readout with the minutes not wrapped at the hour.
FormatElapsedUnwrapped(elapsed_ms) ==
    LET hours == elapsed_ms \div 3600000
        minutes == elapsed_ms \div 60000
        seconds == (elapsed_ms \div 1000) % 60
        millis == elapsed_ms % 1000
        short == Formatted(minutes, 2) \o <<":">> \o Formatted(seconds, 2)
                     \o <<".">> \o Formatted(millis, 3)
    IN IF hours > 0 THEN Formatted(hours, 2) \o <<":">> \o short ELSE short

_format_stopwatch_elapsed(elapsed_ms) ==
    LET hours == elapsed_ms \div 3600000
        minutes == (elapsed_ms \div 60000) % 60
        seconds == (elapsed_ms \div 1000) % 60
        millis == elapsed_ms % 1000
        short == Formatted(minutes, 2) \o <<":">> \o Formatted(seconds, 2)
                     \o <<".">> \o Formatted(millis, 3)
    IN IF hours > 0 THEN Formatted(hours, 2) \o <<":">> \o short ELSE short

\* Angles are exact, in units of 1/120000 degree: the smallest step of a
\* hand is that of the stopwatch hour hand, 30 degrees in 3,600,000 ms.
Degrees(d) == d * 120000

\* Wall-clock times datetime.now() may give: <<hour, minute, second>>.
WallTimes == {<<0, 0, 0>>, <<3, 0, 0>>, <<15, 0, 0>>, <<23, 59, 59>>}

\* _draw_clock_hands: angle_deg of the hour and the minute hand
\*   hour = (now.hour % 12) + now.minute / 60.0 + now.second / 3600.0
\*   minute = now.minute + now.second / 60.0
ClockHourAngle(wall) ==
    ((wall[1] % 12) * 3600 + wall[2] * 60 + wall[3]) * 1000 - Degrees(90)

ClockMinuteAngle(wall) == (wall[2] * 60 + wall[3]) * 12000 - Degrees(90)

\* _draw_stopwatch_hands: angle_deg of the three hands
\*   (elapsed_hours % 12.0) * 30 - 90
\*   (elapsed_minutes % 60.0) * 6 - 90
\*   (elapsed_seconds % 60.0) * 6 - 90
StopwatchHourAngle(elapsed_ms) == (elapsed_ms % 43200000) - Degrees(90)

StopwatchMinuteAngle(elapsed_ms) == (elapsed_ms % 3600000) * 12 - Degrees(90)

\* The second hand measured from 12 o'clock.
StopwatchSecondAngleFromTwelve(elapsed_ms) == (elapsed_ms % 60000) * 720

StopwatchSecondAngle(elapsed_ms) == (elapsed_ms % 60000) * 720 - Degrees(90)

\* paintEvent: what is drawn from the state, the stopwatch reading and
\* the wall-clock time: the angles of the hands and, in Stopwatch mode,
\* the text of the readout.
Painted(m, elapsed_ms, wall) ==
    IF m = MODE_STOPWATCH
    THEN [face |-> MODE_STOPWATCH, elapsed_ms |-> elapsed_ms, wall |-> <<>>,
          hour |-> StopwatchHourAngle(elapsed_ms),
          minute |-> StopwatchMinuteAngle(elapsed_ms),
          second |-> StopwatchSecondAngle(elapsed_ms),
          readout |-> _format_stopwatch_elapsed(elapsed_ms)]
    ELSE [face |-> MODE_CLOCK, elapsed_ms |-> 0, wall |-> wall,
          hour |-> ClockHourAngle(wall),
          minute |-> ClockMinuteAngle(wall),
          second |-> 0,
          readout |-> <<>>]

\* ------------------------------------------------------------ bookkeeping
\* What the last handler was and what it observed.
LastOf(op) ==
    [op |-> op, arg |-> 0, persist |-> FALSE, changed |-> FALSE, repeat |-> FALSE,
     pressed |-> FALSE, native |-> FALSE, dist |-> 0,
     was_click |-> FALSE, drag |-> FALSE,
     pre_running |-> stopwatch_running, pre_ms |-> CurrentStopwatchMs,
     raised |-> ""]

\* A call of a mutator or menu action; repeat: it repeats the call before
\* it (the same handler and argument, both with persistence enabled);
\* raised: what the handler's trailing save_state raised into it.
LastCall(op, arg, persist, changed) ==
    [LastOf(op) EXCEPT
        !.arg = arg, !.persist = persist, !.changed = changed,
        !.repeat = (last.op = op /\ last.arg = arg /\ last.persist /\ persist),
        !.raised = IF persist /\ changed THEN SaveStateRaises(disk_ok) ELSE ""]

\* History of the stopwatch (ghost):
\*   away_ms    the reading when set_mode last left Stopwatch mode, if the
\*              stopwatch was running then (-1: it was not, or never left);
\*   away_t     the clock reading when set_mode last left Stopwatch mode;
\*   run_base   the accumulated ms when the stopwatch was last started;
\*   run_t0     the clock reading when it was last started;
\*   run_reset  reset_stopwatch was called since it was last started;
\*   opacity    the opacity the process was launched with;
\*   launches   how many times the process was launched again;
\*   naps       how many long stretches of time have passed.
\* History of the pointer session (far_move): a move with the left button
\* held came more than the click threshold away from the press point since
\* the last left press.
GhostInit ==
    [away_ms |-> -1, away_t |-> 0, run_base |-> 0, run_t0 |-> 0, run_reset |-> FALSE,
     opacity |-> Num(DEFAULT_OPACITY), launches |-> 0, naps |-> 0]

\* ------------------------------------------------------------ start-up
\* Saved records found at start-up, and --x/--y given on the command line.
InitRecords ==
    {NoRecord,
     Payload(1, 2, 160, MODE_STOPWATCH, LAYER_NORMAL, "ocean", <<"A">>),
     Payload(1900, 40, 2000, "timer", "floating", "sepia", <<" ">>)}
CliPositions == {NoPoint, Pt(-700, 40)}
InitNows == {0}
DiskOutcomes == BOOLEAN

\* main, up to the event loop: the launch values come from the state file
\* (no command-line overrides but the position and the opacity), the
\* widget is constructed, the position restored, the window shown and the
\* layer applied with persist=False.  The outcomes are the states the
\* launch can leave, one for each screen the window may be centered on.
\* raised names the exception that ended the launch, if one did: there is
\* then no window and nothing was written.
LaunchOutcomes(file, cli, opacity, io) ==
    LET state == load_saved_state(file)
        size == LaunchSize(state.size)
        m == LaunchMode(state.mode)
        l == LaunchLayer(state.layer)
        theme == LaunchTheme(state.theme)
        f == LaunchFont(state.readout_font)
        w == size.v
        h == WindowHeight(size.v, m)
        \* restore_position
        saved == SavedPosition(state)
        caught == saved.raises \in {"TypeError", "ValueError", "KeyError"}
        asked == IF cli # NoPoint THEN cli
                 ELSE IF saved.raises # "" THEN NoPoint ELSE saved.p
        recenter == cli = NoPoint
                    /\ (caught \/ ~IsOnAnyScreen(Frame(asked[1], asked[2], w, h)))
        \* the window was never moved when the record gives no position
        before == IF asked = NoPoint THEN Frame(0, 0, w, h)
                  ELSE Frame(asked[1], asked[2], w, h)
        raised == IF LoadRaises(file.form) # "" THEN LoadRaises(file.form)
                  ELSE IF size.raises # "" THEN size.raises
                  ELSE IF theme.raises # "" THEN theme.raises
                  ELSE IF cli = NoPoint /\ ~caught THEN saved.raises
                  ELSE ""
        Outcome(pos, written) ==
            [mode |-> m, layer |-> l, clock_size |-> size.v,
             readout_height |-> ReadoutHeight(size.v),
             color_theme |-> theme.v, readout_font_family |-> f,
             face_alpha |-> _clamp_opacity(opacity),
             win_x |-> pos[1], win_y |-> pos[2], win_w |-> w, win_h |-> h,
             visible |-> (raised = ""),
             timer_interval |-> RefreshInterval(m, FALSE),
             state_file |-> IF written
                            THEN SaveState(file, Payload(pos[1], pos[2], size.v, m, l,
                                                         theme.v, f), io)
                            ELSE file,
             writes |-> IF written THEN 1 ELSE 0,
             raised |-> raised]
    IN IF raised # ""
       THEN {Outcome(Pt(0, 0), FALSE)}
       ELSE {Outcome(IF recenter THEN CenteredAt(scr, w, h) ELSE asked, recenter) :
                 scr \in CurrentScreens(before)}

\* The state after construction: the process was launched on one of the
\* records, with one of the positions and opacities on the command line.
Launching(records, positions, disks, opacities) ==
    \E rec \in records, cli \in positions, t0 \in InitNows, io \in disks,
       opacity \in opacities :
        \E out \in LaunchOutcomes(rec, cli, opacity, io) :
            /\ mode = out.mode
            /\ layer = out.layer
            /\ clock_size = out.clock_size
            /\ readout_height = out.readout_height
            /\ color_theme = out.color_theme
            /\ readout_font_family = out.readout_font_family
            /\ face_alpha = out.face_alpha
            /\ win_x = out.win_x
            /\ win_y = out.win_y
            /\ win_w = out.win_w
            /\ win_h = out.win_h
            /\ visible = out.visible
            /\ stopwatch_running = FALSE
            /\ stopwatch_elapsed_ms = 0
            /\ stopwatch_start_time = 0
            /\ now = t0
            /\ drag_offset = NoPoint
            /\ press_global_pos = NoPoint
            /\ drag_started = FALSE
            /\ timer_interval = out.timer_interval
            /\ state_file = out.state_file
            /\ disk_ok = io
            /\ writes = out.writes
            /\ last = [op |-> "init", arg |-> 0, persist |-> FALSE, changed |-> FALSE,
                       repeat |-> FALSE,
                       pressed |-> FALSE, native |-> FALSE, dist |-> 0,
                       was_click |-> FALSE, drag |-> FALSE,
                       pre_running |-> FALSE, pre_ms |-> 0, raised |-> out.raised]
            /\ ghost = [GhostInit EXCEPT !.opacity = opacity]
            /\ far_move = FALSE
            /\ relocations = 0

\* A launch with the default opacity.
Start(records, positions, disks) ==
    Launching(records, positions, disks, {Num(DEFAULT_OPACITY)})

Init == Start(InitRecords, CliPositions, DiskOutcomes)

\* ------------------------------------------------------------ mutators
\* The record save_state writes in the state the handler leaves.
PayloadNext ==
    Payload(win_x', win_y', clock_size', mode', layer', color_theme', readout_font_family')

\* The handler's trailing "if persist: self.save_state()".
Persist(persist) ==
    /\ writes' = (IF persist THEN 1 ELSE 0)
    /\ state_file' = IF persist THEN SaveState(state_file, PayloadNext, disk_ok)
                     ELSE state_file
    /\ UNCHANGED disk_ok

\* A call that returns early: nothing but the bookkeeping changes.
NoOp(op, arg, persist) ==
    /\ last' = LastCall(op, arg, persist, FALSE)
    /\ writes' = 0
    /\ UNCHANGED <<widgetVars, now, state_file, disk_ok, histVars>>

\* set_mode that never folds.
FoldsOnSwitchNever(normalized_mode, running) == FALSE

\* Leaving Stopwatch mode stops the stopwatch only when it rests.
FoldsOnSwitchWhenResting(normalized_mode, running) ==
    normalized_mode # MODE_STOPWATCH /\ ~running

\* set_mode folds the running time when it leaves Stopwatch mode.
FoldsOnSwitch(normalized_mode, running) ==
    normalized_mode # MODE_STOPWATCH /\ running

\* set_mode(mode, persist)
SetMode(m, persist) ==
    LET normalized_mode == _valid_mode(m)
        fold == FoldsOnSwitch(normalized_mode, stopwatch_running)
    IN IF normalized_mode = mode
       THEN NoOp("set_mode", m, persist)
       ELSE /\ stopwatch_elapsed_ms' =
                   IF fold THEN CurrentStopwatchMs ELSE stopwatch_elapsed_ms
            /\ stopwatch_running' = IF fold THEN FALSE ELSE stopwatch_running
            /\ mode' = normalized_mode
            \* _apply_window_size
            /\ win_w' = clock_size
            /\ win_h' = clock_size
                        + (IF normalized_mode = MODE_STOPWATCH THEN readout_height ELSE 0)
            /\ timer_interval' = RefreshInterval(mode', stopwatch_running')
            /\ ghost' = IF normalized_mode # MODE_STOPWATCH
                        THEN [ghost EXCEPT
                                 !.away_ms = IF stopwatch_running THEN CurrentStopwatchMs
                                             ELSE -1,
                                 !.away_t = now]
                        ELSE ghost
            /\ last' = LastCall("set_mode", m, persist, TRUE)
            /\ UNCHANGED <<prefVars, sizeVars, win_x, win_y, visible,
                           stopwatch_start_time, ptrVars, now, far_move, relocations>>
            /\ Persist(persist)

\* A set_layer that hides the window and does not show it again.
ShownAgainNever(was_visible) == FALSE

\* The visibility set_layer leaves: the window is hidden (by hide() and by
\* the change of its flags) and shown again if it was visible.
ShownAgain(was_visible) == was_visible

\* set_layer(layer, persist, force): the window is hidden, its flags are
\* set again, its geometry is put back and it is shown again if it was
\* visible.
SetLayer(l, persist, force) ==
    LET normalized_layer == _valid_layer(l)
        old_geometry == Frame(win_x, win_y, win_w, win_h)
        was_visible == visible
    IN IF normalized_layer = layer /\ ~force
       THEN NoOp("set_layer", l, persist)
       ELSE /\ layer' = normalized_layer
            /\ win_x' = old_geometry.x
            /\ win_y' = old_geometry.y
            /\ win_w' = old_geometry.w
            /\ win_h' = old_geometry.h
            /\ visible' = ShownAgain(was_visible)
            /\ last' = LastCall("set_layer", l, persist, TRUE)
            /\ UNCHANGED <<mode, color_theme, readout_font_family, face_alpha, sizeVars,
                           swVars, ptrVars, timer_interval, now, histVars>>
            /\ Persist(persist)

\* center_on_screen, from the context menu
CenterOnScreen ==
    \E scr \in CurrentScreens(Frame(win_x, win_y, win_w, win_h)) :
        LET pos == CenteredAt(scr, win_w, win_h)
        IN /\ win_x' = pos[1]
           /\ win_y' = pos[2]
           /\ last' = LastCall("center_on_screen", 0, TRUE, TRUE)
           /\ UNCHANGED <<mode, prefVars, sizeVars, win_w, win_h, visible, swVars,
                          ptrVars, timer_interval, now, histVars>>
           /\ Persist(TRUE)

\* set_clock_size(size, persist): the window keeps its center; a window
\* whose center is then on no screen is centered (and saved) by
\* center_on_screen before the handler's own save.
SetClockSize(size, persist) ==
    LET normalized_size == _valid_size(size)
        old_center == RectCenter(Frame(win_x, win_y, win_w, win_h))
        w == normalized_size
        h == normalized_size
             + (IF mode = MODE_STOPWATCH THEN ReadoutHeight(normalized_size) ELSE 0)
        moved == Pt(old_center[1] - w \div 2, old_center[2] - h \div 2)
        off == ~IsOnAnyScreen(Frame(moved[1], moved[2], w, h))
    IN IF normalized_size = clock_size
       THEN NoOp("set_clock_size", size, persist)
       ELSE /\ relocations < MaxRelocations
            /\ relocations' = relocations + 1
            /\ clock_size' = normalized_size
            /\ readout_height' = ReadoutHeight(normalized_size)
            /\ win_w' = w
            /\ win_h' = h
            /\ \E scr \in CurrentScreens(Frame(moved[1], moved[2], w, h)) :
                   LET pos == IF off THEN CenteredAt(scr, w, h) ELSE moved
                   IN win_x' = pos[1] /\ win_y' = pos[2]
            /\ last' = [LastCall("set_clock_size", size, persist, TRUE) EXCEPT
                           !.raised = IF off \/ persist THEN SaveStateRaises(disk_ok)
                                      ELSE ""]
            /\ UNCHANGED <<mode, prefVars, visible, swVars, ptrVars, timer_interval,
                           now, ghost, far_move>>
            /\ writes' = (IF off THEN 1 ELSE 0) + (IF persist THEN 1 ELSE 0)
            /\ state_file' =
                   LET centered == IF off THEN SaveState(state_file, PayloadNext, disk_ok)
                                   ELSE state_file
                   IN IF persist THEN SaveState(centered, PayloadNext, disk_ok) ELSE centered
            /\ UNCHANGED disk_ok

\* set_color_theme(theme_name, persist)
SetColorTheme(t, persist) ==
    LET normalized_theme == _valid_theme(t)
    IN IF normalized_theme = color_theme
       THEN NoOp("set_color_theme", t, persist)
       ELSE /\ color_theme' = normalized_theme
            /\ last' = LastCall("set_color_theme", t, persist, TRUE)
            /\ UNCHANGED <<mode, layer, readout_font_family, face_alpha, sizeVars, geomVars,
                           swVars, ptrVars, timer_interval, now, histVars>>
            /\ Persist(persist)

\* set_readout_font(font_family, persist)
SetReadoutFont(f, persist) ==
    LET normalized == _normalize_readout_font(f)
    IN IF normalized = readout_font_family
       THEN NoOp("set_readout_font", f, persist)
       ELSE /\ readout_font_family' = normalized
            /\ last' = LastCall("set_readout_font", f, persist, TRUE)
            /\ UNCHANGED <<mode, layer, color_theme, face_alpha, sizeVars, geomVars, swVars,
                           ptrVars, timer_interval, now, histVars>>
            /\ Persist(persist)

\* ------------------------------------------------------------ stopwatch
\* reset_stopwatch that does not rebase the start instant.
ResetStartKeep(running, start, t) == start

\* The start instant reset_stopwatch leaves.
ResetStart(running, start, t) == IF running THEN t ELSE start

\* A toggle that only ever starts the stopwatch.
ToggleRunningStartOnly ==
    /\ stopwatch_start_time' = now
    /\ stopwatch_running' = TRUE
    /\ timer_interval' = RefreshInterval(mode, TRUE)
    /\ UNCHANGED <<stopwatch_elapsed_ms, ghost>>

\* toggle_stopwatch_running: the body shared by the menu action and the
\* click.  It sets the stopwatch fields, the timer and the ghost.
ToggleRunning ==
    IF mode # MODE_STOPWATCH
    THEN UNCHANGED <<swVars, timer_interval, ghost>>
    ELSE /\ IF stopwatch_running
            THEN /\ stopwatch_elapsed_ms' = CurrentStopwatchMs
                 /\ stopwatch_running' = FALSE
                 /\ UNCHANGED <<stopwatch_start_time, ghost>>
            ELSE /\ stopwatch_start_time' = now
                 /\ stopwatch_running' = TRUE
                 /\ ghost' = [ghost EXCEPT !.run_base = stopwatch_elapsed_ms,
                                           !.run_t0 = now, !.run_reset = FALSE]
                 /\ UNCHANGED stopwatch_elapsed_ms
         /\ timer_interval' = RefreshInterval(mode, stopwatch_running')

\* "Start stopwatch" / "Stop stopwatch", offered by the context menu in
\* Stopwatch mode only.
ToggleStopwatchRunning ==
    /\ mode = MODE_STOPWATCH
    /\ ToggleRunning
    /\ last' = LastCall("toggle", 0, FALSE, TRUE)
    /\ writes' = 0
    /\ UNCHANGED <<mode, prefVars, sizeVars, geomVars, ptrVars, now, state_file,
                   disk_ok, far_move, relocations>>

\* "Reset stopwatch", offered by the context menu in Stopwatch mode only.
ResetStopwatch ==
    /\ mode = MODE_STOPWATCH
    /\ stopwatch_elapsed_ms' = 0
    /\ stopwatch_start_time' = ResetStart(stopwatch_running, stopwatch_start_time, now)
    /\ ghost' = [ghost EXCEPT !.run_reset = TRUE]
    /\ last' = LastCall("reset", 0, FALSE, TRUE)
    /\ writes' = 0
    /\ UNCHANGED <<mode, prefVars, sizeVars, geomVars, stopwatch_running, ptrVars,
                   timer_interval, now, state_file, disk_ok, far_move,
                   relocations>>

\* What _current_stopwatch_ms leaves of <<stopwatch_running,
\* stopwatch_elapsed_ms, stopwatch_start_time>>, with the reading folded
\* into the accumulated time.
AfterReadingFolded(running, elapsed, start, t) ==
    <<running, CurrentStopwatchMsAt(running, elapsed, start, t), t>>

\* What _current_stopwatch_ms leaves of <<stopwatch_running,
\* stopwatch_elapsed_ms, stopwatch_start_time>>: it computes the reading
\* and assigns nothing.
AfterReading(running, elapsed, start, t) == <<running, elapsed, start>>

\* The redraw timer fires: update() requests a repaint, and the repaint
\* draws the face from the state; in Stopwatch mode it reads
\* _current_stopwatch_ms, in Clock mode the wall-clock time.
TimerTick(wall) ==
    LET read == AfterReading(stopwatch_running, stopwatch_elapsed_ms,
                             stopwatch_start_time, now)
    IN /\ stopwatch_running' = IF mode = MODE_STOPWATCH THEN read[1] ELSE stopwatch_running
       /\ stopwatch_elapsed_ms' =
              IF mode = MODE_STOPWATCH THEN read[2] ELSE stopwatch_elapsed_ms
       /\ stopwatch_start_time' =
              IF mode = MODE_STOPWATCH THEN read[3] ELSE stopwatch_start_time
       /\ last' = [LastOf("tick") EXCEPT !.arg = Painted(mode, CurrentStopwatchMs, wall)]
       /\ writes' = 0
       /\ UNCHANGED <<mode, prefVars, sizeVars, geomVars, ptrVars, timer_interval, now,
                      state_file, disk_ok, histVars>>

\* The monotonic clock advances.
AdvanceTime ==
    /\ now + 1 <= MaxNow
    /\ now' = now + 1
    /\ last' = LastOf("wait")
    /\ writes' = 0
    /\ UNCHANGED <<widgetVars, state_file, disk_ok, histVars>>

\* A long stretch of time passes with nothing handled (ms milliseconds
\* of the monotonic clock).
Naps == {999, 59000, 90000, 3540000, 237600000}

Sleep(ms) ==
    /\ ghost.naps < MaxNaps
    /\ now + ms * TicksPerMs <= MaxRunMs * TicksPerMs
    /\ now' = now + ms * TicksPerMs
    /\ ghost' = [ghost EXCEPT !.naps = @ + 1]
    /\ last' = LastOf("wait")
    /\ writes' = 0
    /\ UNCHANGED <<widgetVars, state_file, disk_ok, far_move, relocations>>

\* ------------------------------------------------------------ pointer
Buttons == {"left", "right"}
\* Where in the window a press lands, and how far from the press point
\* (or, without one, from that place) later events are: distances 0, 6, 7.
LocalPoints == {Pt(10, 10)}
Deltas == {Pt(0, 0), Pt(2, 4), Pt(3, 4)}

TopLeft == Pt(win_x, win_y)

\* event.globalPos() of an event delta away from the press point
GlobalPos(local, delta) ==
    PtAdd(IF press_global_pos # NoPoint THEN press_global_pos ELSE PtAdd(TopLeft, local),
          delta)

\* The native interactive move: accepted in Clock mode only.
NativeDrag == drag_started /\ drag_offset = NoPoint /\ press_global_pos # NoPoint

\* Handlers that act on every button.
IsLeftButtonAlways(button) == TRUE

\* event.button() == Qt.LeftButton: mousePressEvent and mouseReleaseEvent
\* return at once for any other button.
IsLeftButton(button) == button = "left"

\* The drag anchor kept when the native move was accepted.
PressOffsetKept(accepted, pos, top_left) == PtSub(pos, top_left)

\* drag_offset after a left press at pos: the anchor (the press point
\* relative to the frame's top-left corner), or None once the native
\* move was accepted.
PressOffset(accepted, pos, top_left) ==
    IF accepted THEN NoPoint ELSE PtSub(pos, top_left)

\* mousePressEvent; native is what startSystemMove answers when asked.
MousePress(button, local, native) ==
    LET pos == PtAdd(TopLeft, local)
        accepted == mode = MODE_CLOCK /\ native
    IN /\ IF ~IsLeftButton(button)
          THEN UNCHANGED <<ptrVars, far_move>>
          ELSE /\ drag_offset' = PressOffset(accepted, pos, TopLeft)
               /\ press_global_pos' = pos
               /\ drag_started' = accepted
               /\ far_move' = FALSE
       /\ last' = [LastOf("press") EXCEPT
                       !.arg = button, !.native = (IsLeftButton(button) /\ accepted)]
       /\ writes' = 0
       /\ UNCHANGED <<mode, prefVars, sizeVars, geomVars, swVars, timer_interval, now,
                      state_file, disk_ok, ghost, relocations>>

\* The drag flag following the distance alone.
DragStartedWhileFar(started, pressed, dist) == pressed /\ dist > click_threshold_px

\* The drag flag after a move event at distance dist from the press point.
DragStarted(started, pressed, dist) ==
    started \/ (pressed /\ dist > click_threshold_px)

\* mouseMoveEvent; left_held is event.buttons() & Qt.LeftButton.
\* last.arg keeps event.globalPos().
MouseMove(local, delta, left_held) ==
    LET pos == GlobalPos(local, delta)
        dist == IF press_global_pos # NoPoint
                THEN manhattanLength(PtSub(pos, press_global_pos)) ELSE 0
        ignored == drag_offset = NoPoint \/ ~left_held
        started == DragStarted(drag_started, press_global_pos # NoPoint, dist)
        target == PtSub(pos, drag_offset)
    IN /\ IF ignored
          THEN UNCHANGED <<ptrVars, geomVars, far_move, relocations>>
          ELSE /\ drag_started' = started
               /\ far_move' = (far_move \/ dist > click_threshold_px)
               /\ IF started
                  THEN /\ relocations < MaxRelocations
                       /\ relocations' = relocations + 1
                       /\ win_x' = target[1]
                       /\ win_y' = target[2]
                  ELSE UNCHANGED <<win_x, win_y, relocations>>
               /\ UNCHANGED <<drag_offset, press_global_pos, win_w, win_h, visible>>
       /\ last' = [LastOf("move") EXCEPT
                       !.arg = pos, !.dist = dist, !.changed = ~ignored]
       /\ writes' = 0
       /\ UNCHANGED <<mode, prefVars, sizeVars, swVars, timer_interval, now,
                      state_file, disk_ok, ghost>>

\* While a native interactive move is in progress the compositor moves
\* the window.
SystemMove(delta) ==
    /\ NativeDrag
    /\ delta # Pt(0, 0)
    /\ relocations < MaxRelocations
    /\ relocations' = relocations + 1
    /\ win_x' = win_x + delta[1]
    /\ win_y' = win_y + delta[2]
    /\ last' = LastOf("system_move")
    /\ writes' = 0
    /\ UNCHANGED <<mode, prefVars, sizeVars, win_w, win_h, visible, swVars, ptrVars,
                   timer_interval, now, state_file, disk_ok, ghost, far_move>>

\* was_click with a strict distance test.
WasClickStrict(pressed, dist, started) ==
    pressed /\ dist < click_threshold_px /\ ~started

\* was_click without the distance test.
WasClickNoDistance(pressed, dist, started) == pressed /\ ~started

\* was_click without the test for a press point.
WasClickUnpressed(pressed, dist, started) == dist <= click_threshold_px /\ ~started

\* was_click of mouseReleaseEvent
WasClick(pressed, dist, started) ==
    pressed /\ dist <= click_threshold_px /\ ~started

\* A release that forgets to clear the press point.
ReleasedSessionKeepsPress == <<NoPoint, press_global_pos, FALSE>>

\* The interaction session mouseReleaseEvent leaves:
\* <<drag_offset, press_global_pos, drag_started>>.
ReleasedSession == <<NoPoint, NoPoint, FALSE>>

\* A release that saves unless it was a click.
ReleaseSavesUnlessClick(was_click, started) == ~was_click

\* Whether mouseReleaseEvent calls save_state: if self.drag_started.
ReleaseSaves(was_click, started) == started

\* mouseReleaseEvent
MouseRelease(button, local, delta) ==
    LET pos == GlobalPos(local, delta)
        pressed == press_global_pos # NoPoint
        dist == IF pressed THEN manhattanLength(PtSub(pos, press_global_pos)) ELSE 0
        was_click == WasClick(pressed, dist, drag_started)
        saves == ReleaseSaves(was_click, drag_started)
        saved_raises == IF saves THEN SaveStateRaises(disk_ok) ELSE ""
    IN IF ~IsLeftButton(button)
       THEN /\ last' = [LastOf("release") EXCEPT !.arg = button]
            /\ writes' = 0
            /\ UNCHANGED <<widgetVars, now, state_file, disk_ok, histVars>>
       ELSE /\ IF mode = MODE_STOPWATCH /\ was_click
               THEN ToggleRunning
               ELSE UNCHANGED <<swVars, timer_interval, ghost>>
            \* an exception out of save_state would skip the lines after it
            /\ IF saved_raises = ""
               THEN /\ drag_offset' = ReleasedSession[1]
                    /\ press_global_pos' = ReleasedSession[2]
                    /\ drag_started' = ReleasedSession[3]
               ELSE UNCHANGED ptrVars
            /\ last' = [LastOf("release") EXCEPT
                           !.arg = button, !.pressed = pressed, !.native = NativeDrag,
                           !.dist = dist, !.was_click = was_click, !.drag = drag_started,
                           !.changed = TRUE, !.raised = saved_raises]
            /\ UNCHANGED <<mode, prefVars, sizeVars, geomVars, now, far_move, relocations>>
            /\ writes' = IF saves THEN 1 ELSE 0
            /\ state_file' = IF saves
                             THEN SaveState(state_file, PayloadNext, disk_ok) ELSE state_file
            /\ UNCHANGED disk_ok

\* ------------------------------------------------------------ life cycle
\* "Quit" of the context menu: the event loop returns and main saves the
\* state.  The process is gone; the widget variables keep what it held.
Quit ==
    /\ visible
    /\ visible' = FALSE
    /\ last' = LastCall("quit", 0, TRUE, TRUE)
    /\ UNCHANGED <<mode, prefVars, sizeVars, win_x, win_y, win_w, win_h, swVars,
                   ptrVars, timer_interval, now, histVars>>
    /\ Persist(TRUE)

\* What one field of the state file may hold after it was damaged.
CorruptValues(field) ==
    {Missing, JNull, JBool(TRUE), JInf, JList}
        \cup (IF field \in {"x", "y", "size"} THEN {JStr("abc")} ELSE {JInt(7)})

\* What the state file may be instead of a JSON object.
BrokenForms == {"missing", "unreadable", "invalid", "not_object", "nested"}

\* Between two runs one field of the record just saved is damaged.
CorruptField(field, j) ==
    /\ ~visible
    /\ last.op = "quit"
    /\ state_file.form = "object"
    /\ state_file' = [state_file EXCEPT ![field] = j]
    /\ last' = [LastOf("edit") EXCEPT !.arg = field]
    /\ writes' = 0
    /\ UNCHANGED <<widgetVars, now, disk_ok, histVars>>

\* Between two runs the state file is removed or replaced.
ReplaceFile(form) ==
    /\ ~visible
    /\ last.op = "quit"
    /\ state_file' = [NoRecord EXCEPT !.form = form]
    /\ last' = [LastOf("replace") EXCEPT !.arg = form]
    /\ writes' = 0
    /\ UNCHANGED <<widgetVars, now, disk_ok, histVars>>

\* main, run again on the state file as it is now; last.arg keeps the
\* command-line position, what happened before the launch and the form of
\* the file that was loaded.
Launch(cli) ==
    /\ ~visible
    /\ ghost.launches < MaxLaunches
    /\ \E out \in LaunchOutcomes(state_file, cli, Num(DEFAULT_OPACITY), disk_ok) :
           /\ mode' = out.mode
           /\ layer' = out.layer
           /\ clock_size' = out.clock_size
           /\ readout_height' = out.readout_height
           /\ color_theme' = out.color_theme
           /\ readout_font_family' = out.readout_font_family
           /\ face_alpha' = out.face_alpha
           /\ win_x' = out.win_x
           /\ win_y' = out.win_y
           /\ win_w' = out.win_w
           /\ win_h' = out.win_h
           /\ visible' = out.visible
           /\ stopwatch_running' = FALSE
           /\ stopwatch_elapsed_ms' = 0
           /\ stopwatch_start_time' = 0
           /\ drag_offset' = NoPoint
           /\ press_global_pos' = NoPoint
           /\ drag_started' = FALSE
           /\ timer_interval' = out.timer_interval
           /\ state_file' = out.state_file
           /\ writes' = out.writes
           /\ last' = [op |-> "launch",
                       arg |-> [cli |-> cli, after |-> last.op, form |-> state_file.form],
                       persist |-> FALSE, changed |-> (out.raised = ""),
                       repeat |-> FALSE,
                       pressed |-> FALSE, native |-> FALSE, dist |-> 0,
                       was_click |-> FALSE, drag |-> FALSE,
                       pre_running |-> FALSE, pre_ms |-> 0, raised |-> out.raised]
           /\ ghost' = [GhostInit EXCEPT !.launches = ghost.launches + 1]
           /\ far_move' = FALSE
           /\ UNCHANGED <<now, disk_ok, relocations>>

\* ------------------------------------------------------------ specification
\* The stopwatch, the redraw timer and the clock.
StopwatchStep ==
    \/ ToggleStopwatchRunning
    \/ ResetStopwatch
    \/ \E wall \in WallTimes : TimerTick(wall)
    \/ AdvanceTime

\* The mode switch, with the persist flags given.
ModeStep(flags) ==
    \E m \in ModeInputs, persist \in flags : SetMode(m, persist)

\* A press and its release.
ClickStep ==
    \/ \E b \in Buttons, p \in LocalPoints, native \in BOOLEAN : MousePress(b, p, native)
    \/ \E b \in Buttons, p \in LocalPoints, d \in Deltas : MouseRelease(b, p, d)

\* The moves of a drag.
DragStep ==
    \/ \E p \in LocalPoints, d \in Deltas, held \in BOOLEAN : MouseMove(p, d, held)
    \/ \E d \in Deltas : SystemMove(d)

\* The window layer, from the context menu and as main applies it.
LayerStep(flags, forces) ==
    \E l \in LayerInputs, persist \in flags, force \in forces :
        SetLayer(l, persist, force)

\* The preferences of the context menu.
PreferenceStep(flags, forces) ==
    \/ \E l \in LayerInputs, persist \in flags, force \in forces :
           SetLayer(l, persist, force)
    \/ \E t \in ThemeInputs, persist \in flags : SetColorTheme(t, persist)
    \/ \E f \in FontInputs, persist \in flags : SetReadoutFont(f, persist)

SizeStep(flags) ==
    \/ \E size \in SizeInputs \cup {clock_size - SIZE_STEP, clock_size + SIZE_STEP},
          persist \in flags : SetClockSize(size, persist)
    \/ CenterOnScreen

\* The end of a run, what may happen to the state file, and the next run.
LifecycleStep ==
    \/ Quit
    \/ \E field \in Fields : \E j \in CorruptValues(field) : CorruptField(field, j)
    \/ \E form \in BrokenForms : ReplaceFile(form)
    \/ \E cli \in CliPositions : Launch(cli)

\* The handlers run while the process does.
Next ==
    \/ /\ visible
       /\ \/ StopwatchStep
          \/ ModeStep(BOOLEAN)
          \/ ClickStep
          \/ DragStep
          \/ PreferenceStep(BOOLEAN, BOOLEAN)
          \/ SizeStep(BOOLEAN)
    \/ LifecycleStep

Spec == Init /\ [][Next]_vars

\* The widget as the context menu and the pointer drive it, started
\* without a saved record: the stopwatch, the mode switch and the click.
InitDefault == Start({NoRecord}, {NoPoint}, {TRUE})

SpecStopwatch == InitDefault /\ [][StopwatchStep \/ ModeStep({TRUE}) \/ ClickStep]_vars

\* The pointer session: presses, moves and releases, and the mode switch.
SpecPointer ==
    Start({NoRecord}, {NoPoint}, DiskOutcomes)
        /\ [][ClickStep \/ DragStep \/ ModeStep({TRUE})]_vars

\* Resizing, centering and the mode switch, from every start-up.
SpecSize == Init /\ [][SizeStep({TRUE}) \/ ModeStep({TRUE})]_vars

\* Runs one after the other on the same state file: the mode and the
\* color theme are changed, the process quits, the file may be damaged,
\* and the process is launched again.
ThemeStep(flags) ==
    \E t \in ThemeInputs, persist \in flags : SetColorTheme(t, persist)

SpecLifecycle ==
    Start(InitRecords, CliPositions, {TRUE})
        /\ [][(visible /\ (ModeStep({TRUE}) \/ ThemeStep({TRUE}))) \/ LifecycleStep]_vars

\* A run launched with any of the opacities; the preferences are changed.
SpecOpacity ==
    Launching({NoRecord}, {NoPoint}, {TRUE}, OpacityInputs)
        /\ [][ModeStep({TRUE}) \/ PreferenceStep({TRUE}, {FALSE})]_vars

\* Mutators called with persistence suppressed, on a window that starts
\* centered or where the command line puts it.
SpecSuppressed ==
    Start({NoRecord}, CliPositions, {TRUE})
        /\ [][ModeStep({FALSE}) \/ ThemeStep({FALSE}) \/ SizeStep({FALSE})]_vars

\* The window layer is changed while the stopwatch runs or rests, from
\* every saved record.
SpecLayer ==
    Start(InitRecords, {NoPoint}, {TRUE})
        /\ [][\/ LayerStep({TRUE}, BOOLEAN)
              \/ ModeStep({TRUE})
              \/ ToggleStopwatchRunning
              \/ AdvanceTime]_vars

\* The stopwatch face over long runs: the stopwatch is started and
\* stopped, the mode switched, seconds to days pass, and the redraw timer
\* repaints the face.
SpecReadout ==
    InitDefault
        /\ [][\/ \E wall \in WallTimes : TimerTick(wall)
              \/ ToggleStopwatchRunning
              \/ ModeStep({TRUE})
              \/ \E ms \in Naps : Sleep(ms)]_vars

\* Resizing a window that the command line put across the left edge of
\* the primary display: part of it is on the display, its center is not.
EdgePositions == {Pt(-120, 40)}

SpecEdge ==
    Start({NoRecord}, EdgePositions, {TRUE})
        /\ [][SizeStep({TRUE}) \/ ModeStep({TRUE})]_vars

\* The window footprint: the size, the mode and the layer are changed,
\* from every saved record.
SpecGeometry ==
    Start(InitRecords, {NoPoint}, {TRUE})
        /\ [][SizeStep({TRUE}) \/ ModeStep({TRUE}) \/ LayerStep({TRUE}, {FALSE})]_vars

\* The stopwatch under everything that may happen around it: it is
\* started, stopped and reset from the menu and by clicks, the mode is
\* switched, the window is resized and moved to another layer, the redraw
\* timer ticks and time passes.
SpecElapsed ==
    InitDefault
        /\ [][\/ ToggleStopwatchRunning
              \/ ResetStopwatch
              \/ \E wall \in {<<3, 0, 0>>} : TimerTick(wall)
              \/ AdvanceTime
              \/ ModeStep({TRUE})
              \/ \E p \in LocalPoints : MousePress("left", p, FALSE)
              \/ \E p \in LocalPoints : MouseRelease("left", p, Pt(0, 0))
              \/ \E size \in {MIN_CLOCK_SIZE} : SetClockSize(size, TRUE)
              \/ \E l \in {LAYER_BOTTOM} : SetLayer(l, TRUE, FALSE)]_vars

\* ------------------------------------------------------------ claims
LeftRelease == last.op = "release" /\ last.arg = "left"

\* C1: in every reachable state, after construction and any sequence of
\* set_clock_size calls (the menu's -20 / +20 steps included), the clock
\* size is between 120 and 640.
C1_SizeInRange == 120 <= clock_size /\ clock_size <= 640

\* Reached: set_clock_size(700) has just lowered the request to 640.
C1_Witness ==
    /\ last.op = "set_clock_size" /\ last.changed
    /\ last.arg = 700 /\ clock_size = 640

\* C2 (as stated): a left press and its left release at most 6 px apart,
\* with no native move accepted, is a click whatever moves came between,
\* and in Stopwatch mode the click toggles the running flag.
C2_ClickWhateverMoves ==
    (LeftRelease /\ last.pressed /\ ~last.native /\ last.dist <= 6)
        => /\ last.was_click
           /\ (mode = MODE_STOPWATCH => stopwatch_running # last.pre_running)

\* C2 (amended): such a pair is a click, and toggles in Stopwatch mode,
\* when no move with the left button held came more than 6 px away from
\* the press point between the press and the release.
C2_ClickWhenNoFarMove ==
    (LeftRelease /\ last.pressed /\ ~last.native /\ last.dist <= 6 /\ ~far_move)
        => /\ last.was_click
           /\ (mode = MODE_STOPWATCH => stopwatch_running # last.pre_running)

\* Reached: a release exactly 6 px from the press point started the
\* stopwatch.
C2_Witness ==
    /\ LeftRelease /\ last.pressed /\ ~last.native /\ last.dist = 6 /\ ~far_move
    /\ last.was_click
    /\ mode = MODE_STOPWATCH /\ stopwatch_running /\ ~last.pre_running

\* C3 (as stated): a left release more than 6 px from its press point is
\* a drag (the drag branch runs and the position is persisted) and does
\* not toggle the stopwatch, also when no move event came in between.
C3_FarReleaseIsDrag ==
    (LeftRelease /\ last.pressed /\ last.dist > 6)
        => /\ last.drag
           /\ writes = 1
           /\ stopwatch_running = last.pre_running

\* C3 (amended): a left release more than 6 px from its press point never
\* toggles the stopwatch; it is a drag (the drag branch runs and the
\* position is written once) exactly when a move with the left button
\* held came more than 6 px away from the press point during the press, or
\* the native move was accepted, and otherwise nothing is written.
C3_FarReleaseNeverToggles ==
    (LeftRelease /\ last.pressed /\ last.dist > 6)
        => /\ stopwatch_running = last.pre_running
           /\ ~last.was_click
           /\ last.drag <=> (far_move \/ last.native)
           /\ writes = (IF last.drag THEN 1 ELSE 0)
           /\ (last.drag /\ disk_ok) =>
                  (state_file.form = "object" /\ state_file.x = JInt(win_x)
                   /\ state_file.y = JInt(win_y))

\* Reached: a drag that ended 7 px from the press point was saved.
C3_Witness ==
    /\ LeftRelease /\ last.pressed /\ last.dist = 7 /\ far_move /\ ~last.native
    /\ last.drag /\ writes = 1
    /\ state_file.form = "object" /\ state_file.x = JInt(win_x)

\* C4: when set_mode leaves Stopwatch mode with the stopwatch running and
\* later comes back, the stopwatch is stopped and reads what it read at
\* the moment it left, however long the widget stayed in Clock mode.
C4_FrozenAcrossModeSwitch ==
    (last.op = "set_mode" /\ last.changed /\ mode = MODE_STOPWATCH /\ ghost.away_ms >= 0)
        => /\ ~stopwatch_running
           /\ CurrentStopwatchMs = ghost.away_ms

\* Reached: back in Stopwatch mode with a reading of at least 1 ms, after
\* the clock advanced in Clock mode.
C4_Witness ==
    /\ last.op = "set_mode" /\ last.changed /\ mode = MODE_STOPWATCH
    /\ ghost.away_ms >= 1 /\ now > ghost.away_t
    /\ CurrentStopwatchMs = ghost.away_ms

\* C5 (as stated): a mutator called with persistence enabled writes the
\* record exactly once when it changes the value, and a second call with
\* the same value right after it writes nothing and changes nothing.
Mutators ==
    {"set_mode", "set_layer", "set_clock_size", "set_color_theme", "set_readout_font"}

C5_TwiceWritesOnce ==
    (last.op \in Mutators /\ last.persist)
        => IF last.repeat
           THEN writes = 0 /\ ~last.changed
           ELSE last.changed => writes = 1

\* C6: after every left release the interaction session is idle: no drag
\* offset, no press point, no drag flag.
C6_IdleAfterRelease ==
    LeftRelease
        => /\ drag_offset = NoPoint
           /\ press_global_pos = NoPoint
           /\ ~drag_started

\* Reached: the release that ended a manual drag.
C6_Witness ==
    /\ LeftRelease /\ last.pressed /\ last.drag /\ ~last.native
    /\ drag_offset = NoPoint /\ press_global_pos = NoPoint /\ ~drag_started

\* C7: reset_stopwatch zeroes the accumulated time and keeps the running
\* flag; a stopped stopwatch then reads 0, a running one has its start
\* instant rebased to now, reads 0 and grows from there.
C7_ResetKeepsRunning ==
    /\ last.op = "reset"
           => /\ stopwatch_elapsed_ms = 0
              /\ stopwatch_running = last.pre_running
              /\ CurrentStopwatchMs = 0
              /\ stopwatch_running => stopwatch_start_time = now
    /\ (last.op = "wait" /\ stopwatch_running /\ ghost.run_reset /\ stopwatch_elapsed_ms = 0)
           => /\ CurrentStopwatchMs >= last.pre_ms
              /\ CurrentStopwatchMs = (now - stopwatch_start_time) \div TicksPerMs

\* Reached: a reset of a running stopwatch that read at least 1 ms.
C7_Witness ==
    /\ last.op = "reset" /\ stopwatch_running /\ last.pre_running
    /\ last.pre_ms >= 1 /\ CurrentStopwatchMs = 0

\* C8: a start at t0 and a stop at t1 add the whole milliseconds between
\* t0 and t1 to the accumulated time; the reading then stays as it is
\* while the clock advances, and a reset brings it to 0.
C8_StopAddsWholeMs ==
    /\ (last.pre_running /\ ~stopwatch_running /\ ~ghost.run_reset)
           => /\ stopwatch_elapsed_ms
                     = ghost.run_base + (now - ghost.run_t0) \div TicksPerMs
              /\ CurrentStopwatchMs = stopwatch_elapsed_ms
    /\ (last.op = "wait" /\ ~stopwatch_running) => CurrentStopwatchMs = last.pre_ms
    /\ (last.op = "reset" /\ ~stopwatch_running) => CurrentStopwatchMs = 0

\* Reached: a stop after a run that was not a whole number of
\* milliseconds long and added at least 1 ms.
C8_Witness ==
    /\ last.pre_running /\ ~stopwatch_running /\ ~ghost.run_reset
    /\ (now - ghost.run_t0) % TicksPerMs # 0
    /\ stopwatch_elapsed_ms >= ghost.run_base + 1

\* C9: in every reachable state the reading is the accumulated ms when
\* stopped and the accumulated ms plus the time since the start instant
\* when running, and it is never negative.
C9_ReadingInvariant ==
    /\ CurrentStopwatchMs =
           IF stopwatch_running
           THEN stopwatch_elapsed_ms + (now - stopwatch_start_time) \div TicksPerMs
           ELSE stopwatch_elapsed_ms
    /\ stopwatch_start_time <= now
    /\ stopwatch_elapsed_ms >= 0
    /\ CurrentStopwatchMs >= 0

\* Reached: a second run, reading more than the time accumulated before it.
C9_Witness ==
    /\ stopwatch_running
    /\ stopwatch_elapsed_ms >= 1
    /\ CurrentStopwatchMs > stopwatch_elapsed_ms

\* C10: in every reachable state the redraw timer interval is 1000 ms in
\* Clock mode, 10 ms in Stopwatch mode while running and 33 ms in
\* Stopwatch mode while paused.
C10_TimerMatchesMode ==
    timer_interval =
        IF mode = "clock" THEN 1000
        ELSE IF stopwatch_running THEN 10 ELSE 33

\* Reached: a click has just started the stopwatch and the timer runs at
\* 10 ms.
C10_Witness ==
    /\ LeftRelease /\ last.was_click
    /\ mode = "stopwatch" /\ stopwatch_running /\ timer_interval = 10

\* C11: when the process quits with its window on a display and is
\* launched again on the record it saved (no position on the command
\* line), the launch completes with the same position, size, mode, layer,
\* theme and readout font.
C11_RoundTrip ==
    [][(/\ last'.op = "launch" /\ last.op = "quit" /\ last'.arg.cli = NoPoint
        /\ disk_ok /\ IsOnAnyScreen(Frame(win_x, win_y, win_w, win_h)))
           => /\ last'.raised = "" /\ visible'
              /\ win_x' = win_x /\ win_y' = win_y
              /\ clock_size' = clock_size /\ win_w' = win_w /\ win_h' = win_h
              /\ mode' = mode /\ layer' = layer
              /\ color_theme' = color_theme
              /\ readout_font_family' = readout_font_family]_vars

\* Reached: a launch after a quit that restored values no default gives.
C11_Witness ==
    /\ last.op = "launch" /\ last.arg.after = "quit" /\ last.arg.cli = NoPoint
    /\ last.raised = "" /\ visible /\ writes = 0
    /\ mode = MODE_STOPWATCH /\ layer = LAYER_NORMAL /\ color_theme = "ocean"
    /\ clock_size = 160 /\ readout_font_family = <<"A">>
    /\ win_x = 1 /\ win_y = 2
    /\ state_file = Payload(1, 2, 160, MODE_STOPWATCH, LAYER_NORMAL, "ocean", <<"A">>)

\* C12 (as stated): when one field of the record just saved is damaged
\* (any JSON value kind, or the key removed) and the process is launched
\* again, the launch completes, every other field has its saved value and
\* the damaged field has its default.
C12_OneCorruptFieldLoads ==
    [][(/\ last'.op = "launch" /\ last.op = "edit" /\ last'.arg.cli = NoPoint
        /\ disk_ok /\ IsOnAnyScreen(Frame(win_x, win_y, win_w, win_h)))
           => /\ last'.raised = "" /\ visible'
              /\ last.arg # "x" => win_x' = win_x
              /\ last.arg # "y" => win_y' = win_y
              /\ clock_size' = IF last.arg = "size" THEN DEFAULT_CLOCK_SIZE ELSE clock_size
              /\ mode' = IF last.arg = "mode" THEN DEFAULT_MODE ELSE mode
              /\ layer' = IF last.arg = "layer" THEN DEFAULT_LAYER ELSE layer
              /\ color_theme' = IF last.arg = "theme" THEN DEFAULT_THEME ELSE color_theme
              /\ readout_font_family' =
                     IF last.arg = "readout_font" THEN DEFAULT_READOUT_FONT
                     ELSE readout_font_family]_vars

\* C13 (as stated): when the position read from the saved record puts the
\* center of the window frame on no display, the launch centers the
\* window on the primary display.
C13_RecentersOnPrimary ==
    [][(/\ last'.op = "launch" /\ last'.raised = "" /\ last'.arg.cli = NoPoint
        /\ state_file.form = "object"
        /\ SavedPosition(state_file).raises = ""
        /\ ~IsOnAnyScreen(Frame(SavedPosition(state_file).p[1],
                                SavedPosition(state_file).p[2], win_w', win_h')))
           => /\ win_x' = CenteredAt(PrimaryScreen, win_w', win_h')[1]
              /\ win_y' = CenteredAt(PrimaryScreen, win_w', win_h')[2]]_vars

\* C19 (as stated): when the state file is missing, unreadable, not JSON,
\* not a JSON object or otherwise fails to parse, load_saved_state raises
\* nothing and the launch completes with the defaults.
C19_LoadNeverRaises ==
    (last.op = "launch" /\ last.arg.form # "object")
        => /\ last.raised = "" /\ visible
           /\ mode = DEFAULT_MODE /\ layer = DEFAULT_LAYER
           /\ clock_size = DEFAULT_CLOCK_SIZE
           /\ color_theme = DEFAULT_THEME
           /\ readout_font_family = DEFAULT_READOUT_FONT

\* C14: in every reachable state the face opacity is a number between
\* 0.05 and 0.95: an opacity given below 0.05 is stored as 0.05, one above
\* 0.95 as 0.95, and one in between as it was given.
C14_OpacityInRange ==
    /\ ~face_alpha.nan
    /\ 5 <= face_alpha.h /\ face_alpha.h <= 95
    /\ ~ghost.opacity.nan
           => face_alpha.h = (IF ghost.opacity.h < 5 THEN 5
                              ELSE IF ghost.opacity.h > 95 THEN 95
                              ELSE ghost.opacity.h)

\* Reached: launched with an opacity below the lower limit, the widget
\* holds 0.05, also after a preference was changed.
C14_Witness ==
    /\ ghost.opacity = Num(4) /\ face_alpha = Num(5)
    /\ last.op = "set_color_theme" /\ last.changed

\* C15: a left release classified as a click flips the running flag
\* (once: running becomes stopped, stopped becomes running) in Stopwatch
\* mode, and in Clock mode leaves the running flag, the accumulated time,
\* the start instant and the timer interval as they were.
C15_ClickTogglesInStopwatchOnly ==
    [][(last'.op = "release" /\ last'.arg = "left" /\ last'.was_click)
           => IF mode = MODE_STOPWATCH
              THEN stopwatch_running' = ~stopwatch_running /\ mode' = mode
              ELSE UNCHANGED <<stopwatch_running, stopwatch_elapsed_ms,
                               stopwatch_start_time, timer_interval>>]_vars

\* Reached: a click stopped the running stopwatch.
C15_Witness ==
    /\ LeftRelease /\ last.was_click /\ mode = MODE_STOPWATCH
    /\ last.pre_running /\ ~stopwatch_running /\ stopwatch_elapsed_ms >= 1

\* C16 (as stated): a mutator called with persist=False writes nothing to
\* the state file, whatever the mutator, the input and the state it is
\* called in, also when set_clock_size has to center a window that ended
\* up on no display.
C16_SuppressedWritesNothing ==
    (last.op \in Mutators /\ ~last.persist) => writes = 0

\* C17 (as stated): a set_clock_size that changes the size leaves the
\* center of the window frame where it was, in x and in y, whenever the
\* window moved around that center is on a display.
C17_ResizeKeepsCenter ==
    [][(/\ last'.op = "set_clock_size" /\ last'.changed
        /\ LET c == RectCenter(Frame(win_x, win_y, win_w, win_h))
           IN IsOnAnyScreen(Frame(c[1] - win_w' \div 2, c[2] - win_h' \div 2,
                                  win_w', win_h')))
           => RectCenter(Frame(win_x', win_y', win_w', win_h'))
                  = RectCenter(Frame(win_x, win_y, win_w, win_h))]_vars

\* C18: a set_layer that changes the layer (or is forced) leaves the
\* window where it was, as large as it was and as visible as it was, and
\* leaves the mode, the size, the theme and the stopwatch unchanged.
C18_LayerKeepsGeometry ==
    [][(last'.op = "set_layer" /\ last'.changed)
           => /\ layer' = _valid_layer(last'.arg)
              /\ UNCHANGED <<win_x, win_y, win_w, win_h, visible>>
              /\ UNCHANGED <<mode, clock_size, readout_height, color_theme>>
              /\ UNCHANGED <<stopwatch_running, stopwatch_elapsed_ms,
                             stopwatch_start_time>>]_vars

\* Reached: the layer of a visible window with a running stopwatch was
\* changed to bottom, and the window is still visible at its place.
C18_Witness ==
    /\ last.op = "set_layer" /\ last.changed /\ last.arg = LAYER_BOTTOM
    /\ layer = LAYER_BOTTOM /\ visible
    /\ win_x = 1 /\ win_y = 2 /\ mode = MODE_STOPWATCH /\ stopwatch_running

\* C20: when the write fails, the handler that called save_state still
\* completes: nothing is raised into it, the file is left as it was, and
\* the widget holds what the handler set (after a drag the session is
\* idle, after a mode switch the new mode is in place and the timer
\* follows it).
C20_WriteFailureSwallowed ==
    (~disk_ok /\ writes >= 1)
        => /\ last.raised = ""
           /\ state_file = NoRecord
           /\ last.op = "release"
                  => drag_offset = NoPoint /\ press_global_pos = NoPoint /\ ~drag_started
           /\ last.op = "set_mode"
                  => /\ mode = _valid_mode(last.arg)
                     /\ timer_interval = RefreshInterval(mode, stopwatch_running)

\* Reached: the release of a drag whose write failed: the window stays
\* where it was dragged and the session is idle.
C20_Witness ==
    /\ ~disk_ok /\ writes = 1 /\ LeftRelease /\ last.drag /\ last.raised = ""
    /\ state_file = NoRecord
    /\ win_x # CenteredAt(PrimaryScreen, win_w, win_h)[1]
    /\ drag_offset = NoPoint /\ press_global_pos = NoPoint /\ ~drag_started

\* C21 (as stated): a launch on a record whose mode, layer, theme or font
\* is invalid (any JSON value kind, or the key removed) completes, and
\* after it and after every set_mode and set_color_theme call the mode,
\* the layer, the theme and the font are valid, an invalid value having
\* been replaced by the default; no call raises.
C21_NormalizedNeverRejected ==
    [][/\ (/\ last'.op = "launch"
           /\ state_file.form = "object"
           /\ LaunchSize(state_file.size).raises = ""
           /\ \/ last'.arg.cli # NoPoint
              \/ SavedPosition(state_file).raises # "OverflowError")
              => /\ last'.raised = "" /\ visible'
                 /\ mode' \in {MODE_CLOCK, MODE_STOPWATCH}
                 /\ layer' \in {LAYER_TOP, LAYER_NORMAL, LAYER_BOTTOM}
                 /\ color_theme' \in THEME_PRESETS
                 /\ readout_font_family' # <<>>
                 /\ state_file.mode.kind # "str" => mode' = DEFAULT_MODE
                 /\ state_file.layer.kind # "str" => layer' = DEFAULT_LAYER
                 /\ state_file.theme.kind # "str" => color_theme' = DEFAULT_THEME
                 /\ state_file.readout_font.kind # "str"
                        => readout_font_family' = DEFAULT_READOUT_FONT
       /\ last'.op \in {"set_mode", "set_color_theme"}
              => /\ last'.raised = ""
                 /\ mode' \in {MODE_CLOCK, MODE_STOPWATCH}
                 /\ color_theme' \in THEME_PRESETS
                 /\ (last'.op = "set_mode" /\ last'.arg \notin {MODE_CLOCK, MODE_STOPWATCH})
                        => mode' = DEFAULT_MODE
                 /\ (last'.op = "set_color_theme" /\ last'.arg \notin THEME_PRESETS)
                        => color_theme' = DEFAULT_THEME]_vars

\* Reading a readout back: the number a run of digits stands for.
IsDigits(s) == \A i \in 1..Len(s) : \E d \in 1..10 : DigitChars[d] = s[i]

DigitValue(c) == (CHOOSE d \in 1..10 : DigitChars[d] = c) - 1

RECURSIVE DecimalValue(_)
DecimalValue(s) ==
    IF s = <<>> THEN 0
    ELSE DecimalValue(SubSeq(s, 1, Len(s) - 1)) * 10 + DigitValue(s[Len(s)])

C23_HandAngles ==
    last.op = "tick"
        => /\ last.arg.face = MODE_CLOCK
                  => LET h == last.arg.wall[1]
                         m == last.arg.wall[2]
                         s == last.arg.wall[3]
                         \* 30 degrees an hour is 1/120 degree a second
                         secs == (h % 12) * 3600 + m * 60 + s
                     IN /\ last.arg.hour = (secs - 90 * 120) * (Degrees(1) \div 120)
                        /\ (h \in {3, 15} /\ m = 0 /\ s = 0) => last.arg.hour = Degrees(0)
           /\ last.arg.face = MODE_STOPWATCH
                  => LET ms == last.arg.elapsed_ms
                     \* 6 degrees a second is 6/1000 degree a millisecond
                     IN /\ last.arg.second
                               = ((ms % 60000) * 6 - 90 * 1000) * (Degrees(1) \div 1000)
                        /\ ms = 90000 => last.arg.second = Degrees(90)
                        /\ last.arg.second >= Degrees(-90)
                        /\ last.arg.second < Degrees(270)

\* Reached: a repaint of the face of the running stopwatch at 90,000 ms,
\* the second hand at 90 degrees.
C23_Witness ==
    /\ last.op = "tick" /\ stopwatch_running
    /\ last.arg.face = MODE_STOPWATCH /\ last.arg.elapsed_ms = 90000
    /\ last.arg.second = Degrees(90)

\* C24 (as stated): after restore_position returned at a launch, whatever
\* the command line and the saved record gave, the center of the window
\* frame lies on a display.
C24_RestoredOnScreen ==
    (last.op \in {"init", "launch"} /\ last.raised = "")
        => IsOnAnyScreen(Frame(win_x, win_y, win_w, win_h))

\* Two rectangles share a pixel.
RectsOverlap(a, b) ==
    /\ a.x <= b.x + b.w - 1 /\ b.x <= a.x + a.w - 1
    /\ a.y <= b.y + b.h - 1 /\ b.y <= a.y + a.h - 1

\* C25 (as stated): a set_clock_size that changes the size moves the
\* window around its center; when the window so placed shares no pixel
\* with any display it is centered on the primary display, and when any
\* part of it lies on a display it stays where it was placed.
C25_ResizeFallsBackWhenFullyOutside ==
    [][(last'.op = "set_clock_size" /\ last'.changed)
           => LET old_center == RectCenter(Frame(win_x, win_y, win_w, win_h))
                  placed == Frame(old_center[1] - win_w' \div 2,
                                  old_center[2] - win_h' \div 2, win_w', win_h')
              IN IF \E scr \in Screens : RectsOverlap(placed, scr)
                 THEN win_x' = placed.x /\ win_y' = placed.y
                 ELSE Pt(win_x', win_y') = CenteredAt(PrimaryScreen, win_w', win_h')]_vars

\* C26: once a left press in Clock mode had its native move accepted, no
\* pointer-move event before the left release is acted on (the window
\* stays where the controller last saw it and the session is as the
\* press left it), and neither the press, nor those moves, nor the
\* release changes the stopwatch (the release is no click, whatever the
\* mode has become).
C26_NativeMoveHandsOff ==
    [][/\ (last'.op = "press" /\ last'.arg = "left" /\ last'.native)
              => /\ mode = MODE_CLOCK /\ NativeDrag'
                 /\ UNCHANGED <<geomVars, swVars, timer_interval>>
       /\ (NativeDrag /\ last'.op = "move")
              => /\ ~last'.changed
                 /\ UNCHANGED <<geomVars, swVars, ptrVars, timer_interval>>
       /\ (NativeDrag /\ last'.op = "release" /\ last'.arg = "left")
              => /\ last'.native /\ ~last'.was_click
                 /\ UNCHANGED <<geomVars, swVars, timer_interval>>]_vars

\* Reached: during a native move a move event with the left button held
\* arrives 7 px from the press point, and the window is where it was
\* launched.
C26_Witness ==
    /\ last.op = "move" /\ NativeDrag /\ last.dist > click_threshold_px
    /\ last.arg = PtAdd(press_global_pos, Pt(3, 4))
    /\ relocations = 0
    /\ Pt(win_x, win_y) = CenteredAt(PrimaryScreen, win_w, win_h)
    /\ ~stopwatch_running

\* C27: on the non-native path (a press point and a drag anchor are
\* recorded), a move event with the left button held makes the session
\* Dragging when it is more than 6 px (Manhattan) from the press point,
\* and leaves it Dragging when it already was, wherever the pointer is;
\* when the session is Dragging after the event the window is at the
\* pointer position minus the drag anchor recorded at the press, and
\* when it is not the window has not moved.
C27_DragStartsPastThresholdAndSticks ==
    [][(/\ last'.op = "move" /\ last'.changed
        /\ drag_offset # NoPoint /\ press_global_pos # NoPoint)
           => /\ drag_started' = (drag_started \/ last'.dist > click_threshold_px)
              /\ last'.dist = manhattanLength(PtSub(last'.arg, press_global_pos))
              /\ UNCHANGED <<drag_offset, press_global_pos>>
              /\ IF drag_started'
                 THEN Pt(win_x', win_y') = PtSub(last'.arg, drag_offset)
                 ELSE UNCHANGED <<win_x, win_y>>]_vars

\* Reached: the session is Dragging after a move event back at the press
\* point, and the window is back where it was at the press.
C27_Witness ==
    /\ last.op = "move" /\ last.changed /\ last.dist = 0
    /\ drag_started /\ far_move /\ drag_offset # NoPoint
    /\ relocations = 2
    /\ Pt(win_x, win_y) = PtSub(press_global_pos, drag_offset)

\* C28: a left release writes the record once when a drag occurred during
\* that press (a move with the left button held came more than 6 px from
\* the press point, or the native move was accepted) and writes nothing
\* otherwise: nothing for a click, which may toggle the stopwatch, and
\* nothing for a release that is neither a click nor a drag.
C28_ReleaseWritesIffDrag ==
    LeftRelease
        => /\ last.drag <=> (last.pressed /\ (far_move \/ last.native))
           /\ writes = (IF last.drag THEN 1 ELSE 0)
           /\ last.was_click => (~last.drag /\ writes = 0)
           /\ (writes = 1 /\ disk_ok)
                  => /\ state_file.form = "object"
                     /\ state_file.x = JInt(win_x) /\ state_file.y = JInt(win_y)

\* Reached: the release of a manual drag, back at the press point, has
\* written the record once.
C28_Witness ==
    /\ LeftRelease /\ last.pressed /\ ~last.native
    /\ last.drag /\ far_move /\ last.dist = 0 /\ writes = 1 /\ disk_ok
    /\ state_file.x = JInt(win_x)

\* C29: a tick of the redraw timer repaints and leaves the state as it
\* was: the mode, the layer, the size, the theme, the font, the opacity,
\* the window frame, the timer interval, the pointer session, the record
\* on disk, and the stopwatch's running flag, accumulated ms and start
\* instant; the reading the repaint takes is the one a read before the
\* tick would have given.
C29_TickChangesNothing ==
    [][last'.op = "tick"
           => /\ UNCHANGED <<mode, prefVars, sizeVars, geomVars, timer_interval>>
              /\ UNCHANGED <<stopwatch_running, stopwatch_elapsed_ms, stopwatch_start_time>>
              /\ UNCHANGED <<ptrVars, state_file, now>>
              /\ writes' = 0
              /\ last'.arg.face = MODE_STOPWATCH
                     => last'.arg.elapsed_ms = CurrentStopwatchMs]_vars

\* Reached: a tick while the stopwatch runs, drawing a reading of 2 ms
\* with nothing accumulated yet.
C29_Witness ==
    /\ last.op = "tick" /\ last.arg.face = MODE_STOPWATCH
    /\ stopwatch_running /\ stopwatch_elapsed_ms = 0
    /\ last.arg.elapsed_ms = 2
    /\ timer_interval = INTERVAL_RUNNING

\* C30: in every reachable state the stopwatch runs only in Stopwatch
\* mode: whatever the mode switches, menu toggles and resets, clicks and
\* drags, there is no state with the mode Clock and the stopwatch running.
C30_RunsOnlyInStopwatchMode ==
    stopwatch_running => mode = MODE_STOPWATCH

\* Reached: the mode was switched to Clock while the stopwatch ran; it is
\* stopped now, with the time it had run accumulated.
C30_Witness ==
    /\ last.op = "set_mode" /\ last.changed /\ last.pre_running
    /\ mode = MODE_CLOCK /\ ~stopwatch_running
    /\ stopwatch_elapsed_ms = last.pre_ms /\ stopwatch_elapsed_ms > 0

\* C31: in every reachable state the window footprint follows the size
\* and the mode: the readout height is max(52, size div 4), the window is
\* as wide as the size, and it is as high as the size plus the readout
\* height in Stopwatch mode and as the size in Clock mode, whatever
\* set_mode, set_clock_size and set_layer calls were made.
C31_FootprintFollowsSizeAndMode ==
    /\ readout_height = (IF clock_size \div 4 > 52 THEN clock_size \div 4 ELSE 52)
    /\ win_w = clock_size
    /\ win_h = (IF mode = MODE_STOPWATCH THEN clock_size + readout_height ELSE clock_size)

\* Reached: the layer was just changed on the smallest stopwatch window,
\* 120 wide and 120 + 52 high, after a resize.
C31_Witness ==
    /\ last.op = "set_layer" /\ last.changed /\ layer = LAYER_BOTTOM
    /\ mode = MODE_STOPWATCH /\ clock_size = 120 /\ relocations >= 1
    /\ readout_height = 52 /\ win_w = 120 /\ win_h = 172

\* C32: a press or a release of a button other than the left one changes
\* nothing: the interaction session, the stopwatch, the window frame and
\* the record on disk are as before, and nothing is written, also when the
\* event arrives between a left press and its release.
C32_OtherButtonsIgnored ==
    [][(last'.op \in {"press", "release"} /\ last'.arg # "left")
           => /\ UNCHANGED <<ptrVars, far_move>>
              /\ UNCHANGED <<swVars, timer_interval, mode>>
              /\ UNCHANGED <<geomVars, state_file>>
              /\ writes' = 0
              /\ ~last'.was_click /\ ~last'.drag /\ ~last'.native]_vars

\* Reached: a right release in the middle of a manual drag: the session is
\* still Dragging, and nothing was written.
C32_Witness ==
    /\ last.op = "release" /\ last.arg = "right"
    /\ drag_started /\ drag_offset # NoPoint /\ press_global_pos # NoPoint
    /\ far_move /\ relocations >= 1 /\ writes = 0

\* C33: a left release with no press point recorded (no left press came
\* before it, or the last one was already released) is no click and no
\* drag: in either mode it leaves the stopwatch and the redraw timer as
\* they were and writes nothing.
C33_StrayReleaseDoesNothing ==
    [][(last'.op = "release" /\ last'.arg = "left" /\ press_global_pos = NoPoint)
           => /\ ~last'.pressed /\ ~last'.was_click /\ ~last'.drag
              /\ UNCHANGED <<swVars, timer_interval, mode>>
              /\ UNCHANGED <<geomVars, state_file>>
              /\ writes' = 0
              /\ UNCHANGED ptrVars]_vars

\* Reached: in Stopwatch mode, with the stopwatch running, a left release
\* arrives without a press; the stopwatch still runs.
C33_Witness ==
    /\ LeftRelease /\ ~last.pressed /\ last.dist = 0
    /\ mode = MODE_STOPWATCH /\ last.pre_running /\ stopwatch_running
    /\ writes = 0

\* C34: the reading of the stopwatch never decreases except by
\* reset_stopwatch, which brings it to 0: a toggle, a click, a mode
\* switch, a resize, a layer change and a tick leave the reading exactly
\* as it was at that instant (a stop keeps what the run had reached, a
\* start and a mode switch keep what was accumulated), and while time
\* passes the reading grows when the stopwatch runs and stays when it is
\* stopped.
C34_ReadingNeverDecreases ==
    [][/\ last'.op # "reset" => CurrentStopwatchMs' >= CurrentStopwatchMs
       /\ last'.op = "reset" => CurrentStopwatchMs' = 0
       /\ (last'.op # "reset" /\ now' = now) => CurrentStopwatchMs' = CurrentStopwatchMs
       /\ (now' # now /\ ~stopwatch_running) => CurrentStopwatchMs' = CurrentStopwatchMs
       /\ now' >= now]_vars

\* Reached: the stopwatch was stopped at 1 ms after running 1.5 ms, and
\* has just been started again by a click: it reads 1 ms.
C34_Witness ==
    /\ LeftRelease /\ last.was_click /\ ~last.pre_running /\ stopwatch_running
    /\ stopwatch_elapsed_ms = 1 /\ now = 3 /\ stopwatch_start_time = 3
    /\ CurrentStopwatchMs = 1

====
